---- MODULE Spec2Model ----
(***************************************************************************)
(* Model of the UHF RFID driver Unit_UHF_RFID (UNIT_UHF_RFID.cpp/.h):      *)
(* the frame buffer, the tag registry, the serial transport, the blocking  *)
(* wait loop waitMsg and the command operations built on it.               *)
(*                                                                         *)
(* One behaviour is one invocation of one operation on a driver whose      *)
(* registry, frame buffer and UART input are in a state earlier            *)
(* operations can have left.  The module on the other end of the UART is   *)
(* a byte stream (script) delivered one byte at a time.                    *)
(***************************************************************************)
EXTENDS Integers, Sequences, FiniteSets, TLC

(***************************************************************************)
(* Program constants.                                                      *)
(***************************************************************************)
HEAD == 187
END == 126
BufSize == 256
CleanLen == 200
CardCap == 200
DefaultTimeout == 500
FrameLen == 24
EndIdx == 23

(***************************************************************************)
(* Bounds of the model.                                                    *)
(***************************************************************************)
\* bytes the UART input can hold before the module has to wait
MaxRx == 1
\* how far one step of the clock advances millis()
TickStep == 250
\* number of tag frames in a short inventory script
MaxTags == 2
\* frames the module sends beyond the registry capacity in the long script
Beyond == 2
\* attempts of initializeModule the model follows
MaxAttempts == 3
\* bytes the UART input can hold between two operations
MaxPending == 8
\* the clock of a long scan is followed up to this many milliseconds: two
\* timeouts of waitMsg, so that a deadline can pass after pauses as well
MaxNow == 1000

Byte == 0..255
Idx == 0..(BufSize - 1)

(***************************************************************************)
(* 8-bit arithmetic.                                                       *)
(***************************************************************************)
U8(n) == n % 256

RECURSIVE SumFrom(_, _, _)
\* check += buffer[k] for k = lo .. hi-1, in a uint8_t; addition modulo 256
\* is associative, so the sum is taken by halves to keep the recursion shallow
SumFrom(f, lo, hi) ==
    IF lo >= hi THEN 0
    ELSE IF hi = lo + 1 THEN U8(f[lo])
    ELSE LET mid == (lo + hi) \div 2
         IN  U8(SumFrom(f, lo, mid) + SumFrom(f, mid, hi))

\* the 8-bit sum of the bytes of a sequence
SumSeq(s) == SumFrom(s, 1, Len(s) + 1)

\* the first n bytes of a buffer, as written by _serial->write(data, n)
Bytes(f, n) == [k \in 1..n |-> f[k - 1]]

\* memcpy(buffer, cmd, sizeof(cmd))
Memcpy(buf, cmd) == [k \in Idx |-> IF k < Len(cmd) THEN cmd[k + 1] ELSE buf[k]]

(***************************************************************************)
(* Strings are sequences of character codes.  String(num, HEX) prints       *)
(* lower-case digits without leading zeros; hex2str pads values up to 0xf  *)
(* with one "0".                                                           *)
(***************************************************************************)
\* the characters '0'..'9', 'a'..'f'
HexDigits == <<48, 49, 50, 51, 52, 53, 54, 55, 56, 57, 97, 98, 99, 100, 101, 102>>

RECURSIVE StringHEX(_)
StringHEX(num) ==
    IF num < 16 THEN <<HexDigits[num + 1]>>
    ELSE StringHEX(num \div 16) \o <<HexDigits[(num % 16) + 1]>>

\* mutant: the padding of values up to 0xf is left out
hex2str_nopad(num) == StringHEX(num)

hex2str(num) == IF num > 15 THEN StringHEX(num) ELSE <<48>> \o StringHEX(num)

(***************************************************************************)
(* The module's output: pre, then a run, then post.  A run is either       *)
(* `run` filler bytes (kind "fill") or `run` inventory frames with         *)
(* pairwise distinct EPCs (kind "tags").                                   *)
(***************************************************************************)
\* 12 EPC bytes of the k-th tag of a run; no byte reaches 0x7E
RunEpc(k) == <<0, 0, 0, 0, 0, 0, 0, 0, 0, 0, k \div 100, k % 100>>

\* a well-formed 24-byte inventory response
InvFrame(rssi, pc, epc, crc) ==
    LET body == <<2, 34, 0, 17, rssi>> \o pc \o epc \o crc
    IN  <<HEAD>> \o body \o <<SumSeq(body), END>>

RunPc == <<52, 0>>
RunCrc == <<58, 236>>
RunFrame(k) == InvFrame(241, RunPc, RunEpc(k), RunCrc)

RunLen(s) == IF s.kind = "tags" THEN FrameLen * s.run ELSE s.run
ScriptLen(s) == Len(s.pre) + RunLen(s) + Len(s.post)

\* the p-th byte (1-based) the module sends
ScriptByte(s, p) ==
    IF p <= Len(s.pre) THEN s.pre[p]
    ELSE IF p <= Len(s.pre) + RunLen(s)
         THEN LET q == p - Len(s.pre) - 1
              IN  IF s.kind = "tags"
                  THEN RunFrame((q \div FrameLen) + 1)[(q % FrameLen) + 1]
                  ELSE 0
         ELSE s.post[p - Len(s.pre) - RunLen(s)]

Raw(bytes) == [pre |-> bytes, kind |-> "fill", run |-> 0, post |-> <<>>]

(***************************************************************************)
(* State.                                                                  *)
(***************************************************************************)
VARIABLES
    debug,      \* _debug
    buffer,     \* uint8_t buffer[256]
    behind,     \* the bytes of the object between buffer[255] and cards[0]
    cards,      \* CARD cards[200]
    rx,         \* bytes pending in the UART input (_serial->available/read)
    tx,         \* frames written with sendCMD during this invocation
    script,     \* what the module sends in answer
    pos,        \* bytes of the script already delivered to the UART
    now,        \* millis()
    op,         \* the operation invoked
    arg,        \* its parameters
    pc,         \* position in the operation
    time,       \* waitMsg: the timeout
    start,      \* waitMsg / setReceiverParams: millis() at entry
    i,          \* waitMsg: uint8_t write index
    count,      \* polling: uint8_t count; initializeModule: failed attempts
    response,   \* setReceiverParams: response[0 .. responseIdx-1]
    data,       \* readCard / writeCard: the caller's array
    ok,         \* result of the last waitMsg
    ret,        \* result of the operation
    hist        \* history: what this invocation has received and done

vars == <<debug, buffer, behind, cards, rx, tx, script, pos, now, op, arg, pc, time,
          start, i, count, response, data, ok, ret, hist>>

NoRet == [b |-> FALSE, n |-> 0, s |-> <<>>]
RetBool(b) == [b |-> b, n |-> 0, s |-> <<>>]
RetNum(n) == [b |-> FALSE, n |-> n, s |-> <<>>]
RetStr(s) == [b |-> FALSE, n |-> 0, s |-> s]

\* history of one waitMsg call: bytes received, the first and the last one;
\* pending: bytes that were in the UART input when the command was written
NoWait == [n |-> 0, first |-> -1, last |-> -1, under |-> FALSE, pending |-> 0]
\* seen: the tags an insert was attempted for; slot: the registry index of the
\* last attempt; stopped: the scan ended on a frame at capacity
\* prior: the records the registry held before this invocation
NoHist == [w |-> NoWait, seen |-> <<>>, slot |-> -1, stopped |-> FALSE, prior |-> 0]

ZeroBuffer == [k \in Idx |-> 0]

(***************************************************************************)
(* cleanBuffer: clears buffer[0..199] only.                                *)
(***************************************************************************)
cleanBuffer(buf) == [k \in Idx |-> IF k < CleanLen THEN 0 ELSE buf[k]]

(***************************************************************************)
(* Transport.                                                              *)
(***************************************************************************)
\* the module puts its next byte on the line
Arrive ==
    /\ pc \notin {"idle", "done"}
    /\ pos < ScriptLen(script)
    /\ Len(rx) < (IF pc \in {"vdelay", "idelay"} THEN MaxPending ELSE MaxRx)
    /\ rx' = Append(rx, ScriptByte(script, pos + 1))
    /\ pos' = pos + 1
    /\ UNCHANGED <<debug, behind, buffer, cards, tx, script, now, op, arg, pc, time,
                   start, i, count, response, data, ok, ret, hist>>

Waiting == pc \in {"wait", "recv", "vrecv"}

\* time passes while the driver polls; any interleaving with the bytes
Tick ==
    /\ Waiting
    /\ now - start < time
    /\ now' = now + TickStep
    /\ UNCHANGED <<debug, behind, buffer, cards, rx, tx, script, pos, op, arg,
                   pc, time, start, i, count, response, data, ok, ret, hist>>

\* the same clock, followed up to MaxNow: scans of hundreds of frames and
\* scans that never end are explored with every placement of the pauses
\* and of the timeout that fit into MaxNow
TickUntil ==
    /\ now < MaxNow
    /\ Tick

(***************************************************************************)
(* waitMsg.                                                                *)
(***************************************************************************)
\* what lies at buffer[-1]: the bool _debug, declared right before buffer
BeforeBuffer == {0, 1}

\* sendCMD
sendCMD(frame) == tx' = Append(tx, frame)

\* unsigned long start = millis(); uint8_t i = 0; cleanBuffer();
waitMsgEnter(buf, t) ==
    /\ buffer' = cleanBuffer(buf)
    /\ i' = 0
    /\ start' = now
    /\ time' = t
    /\ pc' = "wait"
    /\ hist' = [hist EXCEPT !.w = [NoWait EXCEPT !.pending = Len(rx)]]

\* if (buffer[0] == 0xbb && buffer[i - 1] == 0x7e); under is what a read of
\* buffer[-1] yields
waitMsgCheck(buf, idx, under) ==
    /\ buf[0] = HEAD
    /\ (IF idx = 0 THEN under ELSE buf[idx - 1]) = END

\* leaving the loop: the marker check decides the result
waitMsgReturn(buf, idx) ==
    \E under \in BeforeBuffer :
        /\ ok' = waitMsgCheck(buf, idx, under)
        /\ pc' = "ret"

\* one pass of the loop with a byte available
WaitMsgRead ==
    /\ pc = "wait"
    /\ rx # <<>>
    /\ LET b == Head(rx)
           buf == [buffer EXCEPT ![i] = b]
           nxt == U8(i + 1)
       IN  /\ rx' = Tail(rx)
           /\ buffer' = buf
           /\ i' = nxt
           /\ hist' = [hist EXCEPT !.w = [n |-> @.n + 1,
                                          first |-> IF @.n = 0 THEN b ELSE @.first,
                                          last |-> b,
                                          under |-> b = END /\ nxt = 0
                                                            /\ buf[0] = HEAD,
                                          pending |-> @.pending]]
           /\ IF b = END
              THEN waitMsgReturn(buf, nxt)
              ELSE UNCHANGED <<pc, ok>>
    /\ UNCHANGED <<debug, behind, cards, tx, script, pos, now, op, arg, time, start,
                   count, response, data, ret>>

\* mutant: the loop ends as soon as nothing is available
WaitMsgTimeout_NoClock ==
    /\ pc = "wait"
    /\ rx = <<>>
    /\ waitMsgReturn(buffer, i)
    /\ hist' = [hist EXCEPT !.w.under = (i = 0 /\ buffer[0] = HEAD)]
    /\ UNCHANGED <<debug, behind, buffer, cards, rx, tx, script, pos, now, op, arg, time,
                   start, i, count, response, data, ret>>

\* mutant: the loop ends at the deadline, whatever is available
WaitMsgTimeout_Deadline ==
    /\ pc = "wait"
    /\ now - start >= time
    /\ waitMsgReturn(buffer, i)
    /\ hist' = [hist EXCEPT !.w.under = (i = 0 /\ buffer[0] = HEAD)]
    /\ UNCHANGED <<debug, behind, buffer, cards, rx, tx, script, pos, now, op, arg, time,
                   start, i, count, response, data, ret>>

\* the loop condition fails: nothing available and the time is up
WaitMsgTimeout ==
    /\ pc = "wait"
    /\ rx = <<>>
    /\ now - start >= time
    /\ waitMsgReturn(buffer, i)
    /\ hist' = [hist EXCEPT !.w.under = (i = 0 /\ buffer[0] = HEAD)]
    /\ UNCHANGED <<debug, behind, buffer, cards, rx, tx, script, pos, now, op, arg, time,
                   start, i, count, response, data, ret>>

(***************************************************************************)
(* waitMsg on its own, for every timeout and stream of the sets below.     *)
(***************************************************************************)
WaitTimes == {0, DefaultTimeout}
WaitBytes == {0, HEAD, END}
WaitHeads == {<<>>} \cup {<<b>> : b \in WaitBytes}
WaitTails == WaitHeads \cup {<<a, b>> : a \in WaitBytes, b \in WaitBytes}
WaitScripts ==
    {[pre |-> h, kind |-> "fill", run |-> r, post |-> t] :
        h \in WaitHeads, r \in {0, BufSize - 1}, t \in WaitTails}

\* the value cleanCardsBuffer stores in every slot
EmptyCard == [rssi |-> 0, pc |-> <<0, 0>>, epc |-> <<0, 0, 0, 0, 0, 0, 0, 0, 0, 0, 0, 0>>,
              rssi_str |-> <<>>, pc_str |-> <<>>, epc_str |-> <<>>]
EmptyCards == [k \in 0..(CardCap - 1) |-> EmptyCard]

(***************************************************************************)
(* The object after construction and begin().  buffer has an initializer,  *)
(* the Strings have a constructor; rssi, pc and epc of the cards and the   *)
(* padding behind buffer have none: they are zero in a static object and   *)
(* hold what the memory held before in an object on the heap or the stack, *)
(* any bytes at all, each on its own.                                      *)
(***************************************************************************)
\* a byte nothing has written yet: it stands for every value of Byte, for
\* the program reads what the memory happened to hold
Indet == -1
\* the memory the object is constructed in: zeroed (static storage), holding
\* one of two sample bytes, or holding bytes that are not known
Fills == {0, 90, 165, Indet}
\* bytes of padding between buffer and cards: _serial, _debug and buffer take
\* 4 + 1 + 256 bytes with 32-bit pointers, 8 + 1 + 256 with 64-bit pointers,
\* and cards is aligned to the size of a pointer
PadLens == {3, 7}

FreshCard(f) == [rssi |-> f, pc |-> <<f, f>>, epc |-> [k \in 1..12 |-> f],
                 rssi_str |-> <<>>, pc_str |-> <<>>, epc_str |-> <<>>]
FreshCards(f) == [k \in 0..(CardCap - 1) |-> FreshCard(f)]
Padding(p, f) == [k \in 1..p |-> f]

\* every object of the sets above, with either value of begin's debug
Objects == [fill : Fills, pad : PadLens, debug : BOOLEAN]
\* a static object of the target and an object on the heap with debug output
FewObjects == {[fill |-> 0, pad |-> 3, debug |-> FALSE],
               [fill |-> 90, pad |-> 7, debug |-> TRUE]}

\* the object is one of objs; its registry is as constructed or, after
\* earlier scans, one of regs
InitObject(objs, regs) ==
    \E o \in objs :
        /\ debug = o.debug
        /\ behind = Padding(o.pad, o.fill)
        /\ cards \in {FreshCards(o.fill)} \cup regs

InitCommon ==
    /\ buffer = ZeroBuffer
    /\ rx = <<>>
    /\ tx = <<>>
    /\ pos = 0
    /\ now = 0
    /\ pc = "idle"
    /\ time = 0
    /\ start = 0
    /\ i = 0
    /\ count = 0
    /\ response = <<>>
    /\ data = IF "data" \in DOMAIN arg THEN arg.data ELSE <<>>
    /\ ok = FALSE
    /\ ret = NoRet
    /\ hist = [NoHist EXCEPT !.prior = Cardinality({k \in DOMAIN cards : cards[k] # EmptyCard})]

InitWait ==
    /\ InitObject(FewObjects, {})
    /\ op = "waitMsg"
    /\ arg \in [time : WaitTimes]
    /\ script \in WaitScripts
    /\ InitCommon

\* waitMsg(time)
WaitMsgCall ==
    /\ pc = "idle"
    /\ op = "waitMsg"
    /\ waitMsgEnter(buffer, arg.time)
    /\ UNCHANGED <<debug, behind, cards, rx, tx, script, pos, now, op, arg, count,
                   response, data, ok, ret>>

\* return ok
WaitMsgDone ==
    /\ pc = "ret"
    /\ op = "waitMsg"
    /\ ret' = RetBool(ok)
    /\ pc' = "done"
    /\ UNCHANGED <<debug, behind, buffer, cards, rx, tx, script, pos, now, op, arg, time,
                   start, i, count, response, data, ok, hist>>

NextWait == WaitMsgCall \/ Arrive \/ Tick \/ WaitMsgRead \/ WaitMsgTimeout \/ WaitMsgDone

SpecWait == InitWait /\ [][NextWait]_vars

(***************************************************************************)
(* Claims about waitMsg.                                                   *)
(***************************************************************************)
\* the bytes of this call: the first one stored and the last one received
FirstIsHead == hist.w.n > 0 /\ hist.w.first = HEAD
LastIsEnd == hist.w.n > 0 /\ hist.w.last = END

\* C1: waitMsg returns true if and only if the first byte it stored for this
\* call is 0xBB and the last byte it received in this call is 0x7E, for every
\* byte sequence, including sequences of 256 or more bytes.
C1_ResultIffMarkers ==
    (op = "waitMsg" /\ pc = "done") => (ret.b <=> (FirstIsHead /\ LastIsEnd))

\* C2: if no 0x7E byte is delivered during a waitMsg(timeout) call, waitMsg
\* reports failure and does not return before the elapsed time has reached
\* timeout, whether zero, some or many other bytes arrive.
C2_TimeoutNotSooner ==
    (op = "waitMsg" /\ pc = "done" /\ ~LastIsEnd)
        => (~ret.b /\ now - start >= arg.time)

\* the timeout expired after a full buffer of bytes without terminator,
\* the first of them 0xBB
C2_Witness ==
    /\ op = "waitMsg" /\ pc = "done" /\ ~LastIsEnd
    /\ arg.time = DefaultTimeout
    /\ hist.w.n >= BufSize
    /\ hist.w.first = HEAD

(***************************************************************************)
(* Command templates of CMD.h.                                             *)
(***************************************************************************)
HARDWARE_VERSION_CMD == <<187, 0, 3, 0, 1, 0, 4, 126>>
POLLING_ONCE_CMD == <<187, 0, 34, 0, 0, 34, 126>>
POLLING_MULTIPLE_CMD == <<187, 0, 39, 0, 3, 34, 39, 16, 131, 126>>
GET_SELECT_PARAMETER_CMD == <<187, 0, 11, 0, 0, 11, 126>>
SET_SELECT_PARAMETER_CMD ==
    <<187, 0, 12, 0, 19, 1, 0, 0, 0, 32, 96, 0, 48, 117, 31, 235, 112, 92, 89, 4,
      227, 213, 13, 112, 173, 126>>
SET_SELECT_OK == <<187, 1, 12, 0, 1, 0, 14, 126>>
READ_STORAGE_CMD == <<187, 0, 57, 0, 9, 0, 0, 0, 0, 3, 0, 0, 0, 2, 69, 126>>
READ_STORAGE_ERROR == <<187, 1, 255, 0, 1, 9, 10, 126>>
WRITE_STORAGE_CMD ==
    <<187, 0, 73, 0, 13, 0, 0, 0, 0, 3, 0, 0, 0, 2, 18, 52, 86, 120, 109, 126>>
WRITE_STORAGE_ERROR == <<187, 1, 255, 0, 1, 16, 10, 126>>
SET_TX_POWER == <<187, 0, 182, 0, 2, 7, 208, 143, 126>>

(***************************************************************************)
(* Tag registry.                                                           *)
(***************************************************************************)
Slots == 0..(CardCap - 1)

\* mutant: the loop stops one slot short
cleanCardsBuffer_short(cs) == [k \in Slots |-> IF k < CardCap - 1 THEN EmptyCard ELSE cs[k]]

\* mutant: the bytes are reset, the strings are kept
cleanCardsBuffer_keepStr(cs) ==
    [k \in Slots |-> [cs[k] EXCEPT !.rssi = 0, !.pc = EmptyCard.pc, !.epc = EmptyCard.epc]]

\* cleanCardsBuffer: every one of the 200 slots is reset
cleanCardsBuffer(cs) == [k \in Slots |-> EmptyCard]

\* filterCardInfo: true when no slot holds this EPC string
filterCardInfo(epc, cs) == \A k \in Slots : epc # cs[k].epc_str

RECURSIVE HexRange(_, _, _)
\* hex2str(buffer[lo]) + ... + hex2str(buffer[hi - 1])
HexRange(buf, lo, hi) ==
    IF lo >= hi THEN <<>> ELSE hex2str(buf[lo]) \o HexRange(buf, lo + 1, hi)

\* the record saveCardInfo builds from the frame in the buffer
CardOf(buf) ==
    [rssi |-> buf[5],
     pc |-> <<buf[6], buf[7]>>,
     epc |-> [k \in 1..12 |-> buf[7 + k]],
     rssi_str |-> hex2str(buf[5]),
     pc_str |-> hex2str(buf[6]) \o hex2str(buf[7]),
     epc_str |-> HexRange(buf, 8, 20)]

\* saveCardInfo(&cards[slot]): its result, and the registry it leaves
saveCardInfoResult(buf, cs) == filterCardInfo(HexRange(buf, 8, 20), cs)
saveCardInfo(buf, cs, slot) ==
    IF saveCardInfoResult(buf, cs) /\ slot \in DOMAIN cs
    THEN [cs EXCEPT ![slot] = CardOf(buf)]
    ELSE cs

\* the tag fields of the frame in the buffer
TagOf(buf) == <<buf[5], <<buf[6], buf[7]>>, [k \in 1..12 |-> buf[7 + k]]>>

(***************************************************************************)
(* pollingOnce and pollingMultiple.                                        *)
(***************************************************************************)
PollOps == {"pollingOnce", "pollingMultiple"}

\* the frame pollingMultiple builds in the buffer
pollingMultipleFrame(buf, polling_count) ==
    LET b1 == Memcpy(buf, POLLING_MULTIPLE_CMD)
        b2 == [b1 EXCEPT ![6] = (polling_count \div 256) % 256,
                         ![7] = polling_count % 256]
    IN  [b2 EXCEPT ![8] = SumFrom(b2, 1, 8)]

PollingOnceCall ==
    /\ pc = "idle"
    /\ op = "pollingOnce"
    /\ cards' = cleanCardsBuffer(cards)
    /\ sendCMD(POLLING_ONCE_CMD)
    /\ count' = 0
    /\ waitMsgEnter(buffer, DefaultTimeout)
    /\ UNCHANGED <<debug, behind, rx, script, pos, now, op, arg, response, data, ok, ret>>

PollingMultipleCall ==
    /\ pc = "idle"
    /\ op = "pollingMultiple"
    /\ cards' = cleanCardsBuffer(cards)
    /\ LET buf == pollingMultipleFrame(buffer, arg.polling_count)
       IN  /\ sendCMD(Bytes(buf, Len(POLLING_MULTIPLE_CMD)))
           /\ waitMsgEnter(buf, DefaultTimeout)
    /\ count' = 0
    /\ UNCHANGED <<debug, behind, rx, script, pos, now, op, arg, response, data, ok, ret>>

\* mutant: count <= 200
HasRoom_le(n) == n <= CardCap

\* count < 200
HasRoom(n) == n < CardCap

\* the history of attempts is kept up to one past the capacity
SeenRoom(s) == Len(s) <= CardCap

\* mutant: the loop gives up once three frames have been handled
PollingGoesOn_bounded == ok /\ Len(hist.seen) < 3

\* while (waitMsg()): what waitMsg returned is the whole loop condition
PollingGoesOn == ok

\* the body of while (waitMsg()) { ... } and the return after it
PollingStep ==
    /\ pc = "ret"
    /\ op \in PollOps
    /\ IF PollingGoesOn /\ ~(buffer[EndIdx] = END /\ ~HasRoom(count))
       THEN \* next pass of the loop
            /\ IF buffer[EndIdx] = END
               THEN /\ cards' = saveCardInfo(buffer, cards, count)
                    /\ count' = IF saveCardInfoResult(buffer, cards)
                                THEN U8(count + 1) ELSE count
                    /\ hist' = [hist EXCEPT !.seen = IF SeenRoom(@) THEN Append(@, TagOf(buffer))
                                                     ELSE @,
                                            !.slot = count,
                                            !.w = NoWait]
               ELSE /\ UNCHANGED <<cards, count>>
                    /\ hist' = [hist EXCEPT !.w = NoWait]
            /\ buffer' = cleanBuffer(buffer)
            /\ i' = 0
            /\ start' = now
            /\ pc' = "wait"
            /\ UNCHANGED <<ret>>
       ELSE \* return 200 / break / the loop condition failed; return count
            /\ ret' = RetNum(IF ok /\ op = "pollingOnce" THEN CardCap ELSE count)
            /\ hist' = [hist EXCEPT !.stopped = ok]
            /\ pc' = "done"
            /\ UNCHANGED <<buffer, cards, count, i, start>>
    /\ UNCHANGED <<debug, behind, rx, tx, script, pos, now, op, arg, time, response, data, ok>>

(***************************************************************************)
(* Inventory scenarios: the registry an earlier scan left, the operation   *)
(* and the frames the module answers with.                                 *)
(***************************************************************************)
EpcA == <<226, 0, 1, 17, 5, 6, 7, 8, 9, 10, 11, 12>>
EpcB == <<226, 0, 17, 1, 5, 6, 7, 8, 9, 10, 11, 12>>
EpcC == <<226, 0, 3, 3, 5, 6, 7, 8, 9, 10, 11, 12>>
Crc0 == <<58, 236>>

\* two readings of tag A, tag B, a tag whose RSSI byte is 0x7E, and the
\* 8-byte "no tag" answer
TagA == InvFrame(200, <<48, 0>>, EpcA, Crc0)
TagA2 == InvFrame(190, <<52, 0>>, EpcA, Crc0)
TagB == InvFrame(200, <<48, 0>>, EpcB, Crc0)
TagE == InvFrame(END, <<48, 0>>, EpcC, Crc0)
NoTag == <<187, 1, 255, 0, 1, 21, 22, 126>>
PollFrames == {TagA, TagA2, TagB, TagE, NoTag}

RECURSIVE FrameSeqs(_)
FrameSeqs(n) ==
    IF n = 0 THEN {<<>>}
    ELSE FrameSeqs(n - 1) \cup
         {<<f>> \o s : f \in PollFrames, s \in {t \in FrameSeqs(n - 1) : Len(t) = n - 1}}

RECURSIVE Flatten(_)
Flatten(fs) == IF fs = <<>> THEN <<>> ELSE Head(fs) \o Flatten(Tail(fs))

ShortScripts == {Raw(Flatten(fs)) : fs \in FrameSeqs(MaxTags)}
LongScript(n) == [pre |-> <<>>, kind |-> "tags", run |-> n, post |-> <<>>]

\* the registry after a scan that read the frames fs (Len(fs) <= 200,
\* pairwise distinct EPCs)
FrameBuffer(f) == [k \in Idx |-> IF k < Len(f) THEN f[k + 1] ELSE 0]
CardsAfter(n, F(_)) == [k \in Slots |-> IF k < n THEN CardOf(FrameBuffer(F(k + 1))) ELSE EmptyCard]
TwoFrames(k) == IF k = 1 THEN TagA ELSE TagB
TwoCards == CardsAfter(2, TwoFrames)
FullCards == CardsAfter(CardCap, RunFrame)

NoArg == [none |-> 0]
PollArg(o) == IF o = "pollingMultiple" THEN [polling_count |-> 10000] ELSE NoArg

\* scans of up to MaxTags frames over a registry as constructed or full
InitPoll ==
    /\ op \in PollOps
    /\ arg = PollArg(op)
    /\ InitObject(FewObjects, {FullCards})
    /\ script \in ShortScripts
    /\ InitCommon

NextPoll ==
    \/ PollingOnceCall \/ PollingMultipleCall
    \/ Arrive \/ Tick \/ WaitMsgRead \/ WaitMsgTimeout
    \/ PollingStep

SpecPoll == InitPoll /\ [][NextPoll]_vars

\* scans of a field of more than CardCap tags, over a registry that holds
\* two records of an earlier scan; the module may fall silent at any point
InitCap ==
    /\ op \in PollOps
    /\ arg = PollArg(op)
    /\ InitObject({[fill |-> 0, pad |-> 3, debug |-> FALSE]}, {TwoCards})
    /\ cards = TwoCards
    /\ script = LongScript(CardCap + Beyond)
    /\ InitCommon

NextCap ==
    \/ PollingOnceCall \/ PollingMultipleCall
    \/ Arrive \/ TickUntil \/ WaitMsgRead \/ WaitMsgTimeout
    \/ PollingStep

SpecCap == InitCap /\ [][NextCap]_vars

(***************************************************************************)
(* Claims about the tag registry.                                          *)
(***************************************************************************)
Scanning == op \in PollOps /\ pc # "idle"
\* the registry changes only between two calls of waitMsg
AfterFrame == op \in PollOps /\ pc \in {"ret", "done"}
StoredSlots == {k \in Slots : cards[k] # EmptyCard}
Stored(k) == cards[k] # EmptyCard
TagRssi(t) == t[1]
TagPc(t) == t[2]
TagEpc(t) == t[3]

\* the index in seen of the first frame that carried this EPC (0: none)
FirstSeen(epc) ==
    IF \E n \in 1..Len(hist.seen) : TagEpc(hist.seen[n]) = epc
    THEN CHOOSE n \in 1..Len(hist.seen) :
            /\ TagEpc(hist.seen[n]) = epc
            /\ \A m \in 1..(n - 1) : TagEpc(hist.seen[m]) # epc
    ELSE 0

SeenEpcs == {TagEpc(hist.seen[n]) : n \in 1..Len(hist.seen)}

\* C3: a record is stored only if no slot already holds the same EPC; after
\* any sequence of inventory frames no two stored records have the same EPC,
\* every EPC seen is stored once, and the stored record keeps the RSSI and PC
\* of the first frame that carried its EPC.
C3_Deduplication ==
    AfterFrame =>
        /\ Cardinality({cards[k].epc : k \in StoredSlots}) = Cardinality(StoredSlots)
        /\ count = Cardinality(SeenEpcs)
        /\ \A k \in StoredSlots :
              LET n == FirstSeen(cards[k].epc)
              IN  /\ n # 0
                  /\ cards[k].rssi = TagRssi(hist.seen[n])
                  /\ cards[k].pc = TagPc(hist.seen[n])
        /\ SeenEpcs = {cards[k].epc : k \in StoredSlots}

\* two readings of one EPC with different RSSI were received, one record stored
C3_Witness ==
    /\ Scanning /\ pc = "done"
    /\ \E m \in 1..Len(hist.seen) : \E n \in 1..Len(hist.seen) :
          /\ m < n
          /\ TagEpc(hist.seen[m]) = TagEpc(hist.seen[n])
          /\ TagRssi(hist.seen[m]) # TagRssi(hist.seen[n])
    /\ Cardinality(StoredSlots) = 1

\* the bytes the driver has taken from the line
BytesRead == pos - Len(rx)

\* C4: at most 200 records are stored and no slot outside 0..199 is written;
\* with 200 records stored, the next inventory frame is not inserted, the
\* scan stops at that frame without reading further and the operation
\* returns 200.
C4_Capacity ==
    \* whatever the uint8_t count holds, an insert is made only into a slot
    /\ \A n \in Byte : HasRoom(n) => n \in Slots
    /\ count <= CardCap
    /\ hist.slot \in -1..(CardCap - 1)
    /\ Scanning =>
          /\ Len(hist.seen) <= CardCap
          /\ Cardinality(StoredSlots) <= CardCap
          \* nothing is read past the frame that follows the 200th record
          /\ BytesRead <= (CardCap + 1) * FrameLen
          \* once that frame has been read the scan is over, as stopped
          /\ BytesRead = (CardCap + 1) * FrameLen =>
                /\ pc \in {"ret", "done"}
                /\ ok
                /\ count = CardCap
                /\ pc = "done" => hist.stopped
          /\ hist.stopped =>
                /\ pc = "done"
                /\ ret.n = CardCap
                /\ count = CardCap
                /\ Len(hist.seen) = CardCap
                /\ BytesRead = (CardCap + 1) * FrameLen

\* a scan stopped on the frame after the 200th record, with frames still to come
C4_Witness ==
    /\ Scanning /\ pc = "done" /\ hist.stopped
    /\ ret.n = CardCap
    /\ Len(hist.seen) = CardCap
    /\ Cardinality(StoredSlots) = CardCap
    /\ pos < ScriptLen(script)

RECURSIVE Dedup(_, _)
\* the tags of s whose EPC is not in the set got, in order, each EPC once
Dedup(s, got) ==
    IF s = <<>> THEN <<>>
    ELSE IF TagEpc(Head(s)) \in got THEN Dedup(Tail(s), got)
         ELSE <<Head(s)>> \o Dedup(Tail(s), got \cup {TagEpc(Head(s))})

\* C5: after pollingOnce or pollingMultiple returns n, slots 0..n-1 hold
\* exactly the records inserted during this call, in arrival order, and slots
\* n..199 are empty, whatever earlier scans stored.
C5_OnlyThisScan ==
    (op \in PollOps /\ pc = "done") =>
        LET new == Dedup(hist.seen, {})
        IN  /\ ret.n = Len(new)
            /\ \A k \in Slots :
                  IF k < ret.n
                  THEN /\ cards[k].rssi = TagRssi(new[k + 1])
                       /\ cards[k].pc = TagPc(new[k + 1])
                       /\ cards[k].epc = TagEpc(new[k + 1])
                       /\ cards[k].epc_str # <<>>
                  ELSE cards[k] = EmptyCard

\* a scan over a full registry that received no inventory frame
C5_Witness ==
    /\ op \in PollOps /\ pc = "done"
    /\ hist.prior = CardCap
    /\ ret.n = 0
    /\ \A k \in Slots : cards[k] = EmptyCard

InventoryFrames == {TagA, TagA2, TagB, TagE}
\* the scan has read every byte of the script: no frame came later than the
\* deadline of the waitMsg call that was waiting for it
BackToBack == pos = ScriptLen(script) /\ rx = <<>>
FrameEpc(f) == [k \in 1..12 |-> f[8 + k]]

\* C6: for every sequence of well-formed 24-byte inventory frames delivered
\* back to back, whatever their RSSI, PC, EPC and checksum bytes, pollingOnce
\* attempts an insert for each frame and returns the number of distinct EPCs
\* (capped at 200), each of them in the registry.
C6_CountsDistinct ==
    (op = "pollingOnce" /\ pc = "done") =>
        \A fs \in FrameSeqs(MaxTags) :
              (/\ script = Raw(Flatten(fs))
               /\ \A n \in 1..Len(fs) : fs[n] \in InventoryFrames
               /\ BackToBack)
                => /\ Len(hist.seen) = Len(fs)
                   /\ ret.n = Cardinality({FrameEpc(fs[n]) : n \in 1..Len(fs)})
                   /\ \A n \in 1..Len(fs) :
                         \E k \in Slots : Stored(k) /\ cards[k].epc = FrameEpc(fs[n])

(***************************************************************************)
(* Command operations.                                                     *)
(***************************************************************************)
\* "ERROR"
ErrorStr == <<69, 82, 82, 79, 82>>
RegionDelay == 200
InitDelay == 100
VerifyDelay == 300
VerifyTimeout == 1000
VerifySize == 40
RecvTimeout == 500
RecvSize == 10
AckLen == 7

\* (x >> 24) & 0xff, (x >> 16) & 0xff, (x >> 8) & 0xff, x & 0xff
B3(x) == (x \div 16777216) % 256
B2(x) == (x \div 65536) % 256
B1(x) == (x \div 256) % 256
B0(x) == x % 256

RECURSIVE versionInfo(_, _)
\* getVersion: for (i = k; i < 50; i++) { info += buffer[6 + i];
\*                                      if (buffer[8 + i] == 0x7e) break; }
versionInfo(buf, k) ==
    IF k >= 50 THEN <<>>
    ELSE <<buf[6 + k]>> \o (IF buf[8 + k] = END THEN <<>> ELSE versionInfo(buf, k + 1))

RECURSIVE CStr(_)
\* the characters of a String up to the first NUL: what strcmp sees
CStr(s) == IF s = <<>> \/ Head(s) = 0 THEN <<>> ELSE <<Head(s)>> \o CStr(Tail(s))

\* info != "ERROR" is false: String != const char * compares with strcmp
infoIsError(info) == CStr(info) = ErrorStr

\* what getVersion returns after waitMsg returned r
getVersionResult(r, buf) == IF r THEN versionInfo(buf, 0) ELSE ErrorStr

GetVersionCall ==
    /\ pc = "idle"
    /\ op = "getVersion"
    /\ sendCMD(HARDWARE_VERSION_CMD)
    /\ waitMsgEnter(buffer, DefaultTimeout)
    /\ UNCHANGED <<debug, behind, cards, rx, script, pos, now, op, arg, count, response,
                   data, ok, ret>>

GetVersionReturn ==
    /\ pc = "ret"
    /\ op = "getVersion"
    /\ ret' = RetStr(getVersionResult(ok, buffer))
    /\ pc' = "done"
    /\ UNCHANGED <<debug, behind, buffer, cards, rx, tx, script, pos, now, op, arg, time,
                   start, i, count, response, data, ok, hist>>

SelectInfoCall ==
    /\ pc = "idle"
    /\ op = "selectInfo"
    /\ sendCMD(GET_SELECT_PARAMETER_CMD)
    /\ waitMsgEnter(buffer, DefaultTimeout)
    /\ UNCHANGED <<debug, behind, cards, rx, script, pos, now, op, arg, count, response,
                   data, ok, ret>>

SelectInfoReturn ==
    /\ pc = "ret"
    /\ op = "selectInfo"
    /\ ret' = RetStr(IF ok THEN HexRange(buffer, 12, 24) ELSE ErrorStr)
    /\ pc' = "done"
    /\ UNCHANGED <<debug, behind, buffer, cards, rx, tx, script, pos, now, op, arg, time,
                   start, i, count, response, data, ok, hist>>

\* the frame select builds in the buffer; the sum over bytes that are not
\* known is not known
selectFrame(buf, epc) ==
    LET b1 == Memcpy(buf, SET_SELECT_PARAMETER_CMD)
        b2 == [k \in Idx |-> IF k >= 12 /\ k < 24 THEN epc[k - 11] ELSE b1[k]]
    IN  [b2 EXCEPT ![24] = IF \E k \in 1..12 : epc[k] = Indet
                           THEN Indet
                           ELSE SumFrom(b2, 1, 24)]

SelectCall ==
    /\ pc = "idle"
    /\ op = "select"
    /\ LET buf == selectFrame(buffer, arg.epc)
       IN  /\ sendCMD(Bytes(buf, Len(SET_SELECT_PARAMETER_CMD)))
           /\ waitMsgEnter(buf, DefaultTimeout)
    /\ UNCHANGED <<debug, behind, cards, rx, script, pos, now, op, arg, count, response,
                   data, ok, ret>>

\* every byte of SET_SELECT_OK is found in the buffer
selectOk(buf) == \A k \in 0..(Len(SET_SELECT_OK) - 1) : SET_SELECT_OK[k + 1] = buf[k]

SelectReturn ==
    /\ pc = "ret"
    /\ op = "select"
    /\ ret' = RetBool(ok /\ selectOk(buffer))
    /\ pc' = "done"
    /\ UNCHANGED <<debug, behind, buffer, cards, rx, tx, script, pos, now, op, arg, time,
                   start, i, count, response, data, ok, hist>>

\* the object's bytes from buffer[0] on: buffer, the padding, then rssi,
\* pc[0..1] and epc[0..11] of cards[0]
Mem(buf, bh, cs) == [buf |-> buf, bh |-> bh, cs |-> cs]

\* the first index behind cards[0].epc
MemEnd(bh) == BufSize + Len(bh) + 15

\* the byte at buffer[x]; tail is what lies behind cards[0].epc
MemGet(m, x, tail) ==
    LET z == x - BufSize - Len(m.bh)
    IN  IF x < BufSize THEN m.buf[x]
        ELSE IF z < 0 THEN m.bh[x - BufSize + 1]
        ELSE IF z = 0 THEN m.cs[0].rssi
        ELSE IF z <= 2 THEN m.cs[0].pc[z]
        ELSE IF z <= 14 THEN m.cs[0].epc[z - 2]
        ELSE tail

\* buffer[lo + k] = vals[k + 1] for every k < Len(vals)
MemPut(m, lo, vals) ==
    LET New(x, old) == IF x >= lo /\ x < lo + Len(vals) THEN vals[x - lo + 1]
                                                        ELSE old
        c0 == BufSize + Len(m.bh)
        card == m.cs[0]
    IN  [buf |-> [k \in Idx |-> New(k, m.buf[k])],
         bh |-> [k \in 1..Len(m.bh) |-> New(BufSize + k - 1, m.bh[k])],
         cs |-> [m.cs EXCEPT ![0] =
                    [card EXCEPT !.rssi = New(c0, card.rssi),
                                 !.pc = [k \in 1..2 |-> New(c0 + k, card.pc[k])],
                                 !.epc = [k \in 1..12 |-> New(c0 + 2 + k, card.epc[k])]]]]

\* uint8_t offset = 14, incremented once per data byte
writeCardOffset(size) == U8(14 + size)

\* the command, the password, the bank, the address and the word count
writeCardHead(buf, size, membank, sa, access_password) ==
    LET b1 == Memcpy(buf, WRITE_STORAGE_CMD)
        word == U8(size \div 2)
    IN  [b1 EXCEPT ![5] = B3(access_password), ![6] = B2(access_password),
                   ![7] = B1(access_password), ![8] = B0(access_password),
                   ![9] = membank,
                   ![10] = B1(sa), ![11] = B0(sa),
                   ![12] = B1(word), ![13] = B0(word)]

\* for (uint8_t i = 0; i < size; i++): the index reaches size only below 256
writeCardCopyEnds(size) == size < 256

\* the debug loop for (uint8_t i = 0; i < (offset + 2); i++) ends
writeCardPrintEnds(size) == writeCardOffset(size) + 2 < 256

\* the object after writeCard has built its frame: buffer[14 + i] = data[i]
\* wherever that lies, then the checksum at buffer[offset] and 0x7e behind it;
\* with size >= 256 the copy loop stores data[0..255] and starts over
writeCardMem(m, d, size, membank, sa, access_password) ==
    LET n == IF writeCardCopyEnds(size) THEN size ELSE 256
        m1 == Mem(writeCardHead(m.buf, size, membank, sa, access_password),
                  m.bh, m.cs)
        m2 == MemPut(m1, 14, [k \in 1..n |-> d[k]])
        offset == writeCardOffset(size)
    IN  IF writeCardCopyEnds(size)
        THEN MemPut(m2, offset, <<SumFrom(m2.buf, 1, offset), END>>)
        ELSE m2

\* sendCMD(buffer, offset + 2)
writeCardSent(m, size) ==
    [k \in 1..(writeCardOffset(size) + 2) |-> MemGet(m, k - 1, 0)]

WriteCardCall ==
    /\ pc = "idle"
    /\ op = "writeCard"
    /\ LET m == writeCardMem(Mem(buffer, behind, cards), arg.data, arg.size,
                             arg.membank, arg.sa, arg.access_password)
       IN  /\ behind' = m.bh
           /\ cards' = m.cs
           /\ IF ~writeCardCopyEnds(arg.size)
              THEN /\ buffer' = m.buf
                   /\ pc' = "copy"
                   /\ UNCHANGED <<tx, i, start, time, hist>>
              ELSE IF debug /\ ~writeCardPrintEnds(arg.size)
              THEN /\ buffer' = m.buf
                   /\ pc' = "print"
                   /\ UNCHANGED <<tx, i, start, time, hist>>
              ELSE /\ sendCMD(writeCardSent(m, arg.size))
                   /\ waitMsgEnter(m.buf, DefaultTimeout)
    /\ UNCHANGED <<debug, rx, script, pos, now, op, arg, count, response, data,
                   ok, ret>>

WriteCardReturn ==
    /\ pc = "ret"
    /\ op = "writeCard"
    /\ ret' = RetBool(ok /\ WRITE_STORAGE_ERROR[3] # buffer[2])
    /\ pc' = "done"
    /\ UNCHANGED <<debug, behind, buffer, cards, rx, tx, script, pos, now, op, arg, time,
                   start, i, count, response, data, ok, hist>>

\* the frame readCard builds in the buffer; sa is not used
readCardFrame(buf, size, membank, sa, access_password) ==
    LET b1 == Memcpy(buf, READ_STORAGE_CMD)
        word == U8(size \div 2)
        b2 == [b1 EXCEPT ![5] = B3(access_password), ![6] = B2(access_password),
                         ![7] = B1(access_password), ![8] = B0(access_password),
                         ![9] = membank,
                         ![12] = B1(word), ![13] = B0(word)]
    IN  [b2 EXCEPT ![14] = SumFrom(b2, 1, 14)]

ReadCardCall ==
    /\ pc = "idle"
    /\ op = "readCard"
    /\ LET buf == readCardFrame(buffer, arg.size, arg.membank, arg.sa,
                                arg.access_password)
       IN  /\ sendCMD(Bytes(buf, Len(READ_STORAGE_CMD)))
           /\ waitMsgEnter(buf, DefaultTimeout)
    /\ UNCHANGED <<debug, behind, cards, rx, script, pos, now, op, arg, count, response,
                   data, ok, ret>>

\* readCard succeeds: waitMsg accepted and the command byte is not 0xFF
readCardOk(r, buf) == r /\ READ_STORAGE_ERROR[3] # buf[2]

\* the buffer indices the copy loop reads: buffer[20 + i], uint8_t i < size
readCardIndices(size) ==
    {20 + k : k \in 0..((IF size < 256 THEN size ELSE 256) - 1)}

\* temp[i] = buffer[20 + i] for i < size, then memcpy(data, temp, size); the
\* reads past buffer[255] yield the padding and the bytes of cards[0]
readCardCopy(m, size, tail) == [k \in 1..size |-> MemGet(m, 20 + k - 1, tail)]

\* what the reads behind cards[0].epc can yield
readCardTails(size, bh) ==
    IF \E x \in readCardIndices(size) : x >= MemEnd(bh) THEN Byte ELSE {0}

\* a copy that reads behind buffer[255] has undefined behaviour: next to
\* the bytes the layout of the object gives, the build may leave any bytes
\* in the array (an optimising build copies bytes of the stack)
readCardAny(size) == [k \in 1..size |-> Indet]

\* the arrays the copy can leave
readCardCopies(m, size, bh) ==
    {readCardCopy(m, size, tail) : tail \in readCardTails(size, bh)}
        \cup (IF readCardIndices(size) \subseteq Idx THEN {} ELSE {readCardAny(size)})

\* the copy loop ends: its uint8_t index reaches size only below 256
readCardCopyEnds(size) == size < 256

\* the debug loop for (uint8_t i = 0; i < (22 + size); i++) ends
readCardPrintEnds(size) == 22 + size < 256

ReadCardReturn ==
    /\ pc = "ret"
    /\ op = "readCard"
    /\ IF ok /\ debug /\ ~readCardPrintEnds(arg.size)
       THEN /\ pc' = "print"
            /\ UNCHANGED <<data, ret>>
       ELSE IF ~readCardOk(ok, buffer)
       THEN /\ ret' = RetBool(FALSE)
            /\ pc' = "done"
            /\ UNCHANGED data
       ELSE IF readCardCopyEnds(arg.size)
       THEN /\ data' \in readCardCopies(Mem(buffer, behind, cards), arg.size, behind)
            /\ ret' = RetBool(TRUE)
            /\ pc' = "done"
       ELSE /\ pc' = "copy"
            /\ UNCHANGED <<data, ret>>
    /\ UNCHANGED <<debug, buffer, behind, cards, rx, tx, script, pos, now, op, arg,
                   time, start, i, count, response, ok, hist>>

\* mutant: the two bytes of db change places
setTxPowerFrame_swapped(buf, db) ==
    LET b1 == Memcpy(buf, SET_TX_POWER)
        b2 == [b1 EXCEPT ![5] = B0(db), ![6] = B1(db)]
    IN  [b2 EXCEPT ![7] = SumFrom(b2, 1, 7)]

\* the frame setTxPower builds in the buffer
setTxPowerFrame(buf, db) ==
    LET b1 == Memcpy(buf, SET_TX_POWER)
        b2 == [b1 EXCEPT ![5] = B1(db), ![6] = B0(db)]
    IN  [b2 EXCEPT ![7] = SumFrom(b2, 1, 7)]

SetTxPowerCall ==
    /\ pc = "idle"
    /\ op = "setTxPower"
    /\ LET buf == setTxPowerFrame(buffer, arg.db)
       IN  /\ sendCMD(Bytes(buf, Len(SET_TX_POWER)))
           /\ waitMsgEnter(buf, DefaultTimeout)
    /\ UNCHANGED <<debug, behind, cards, rx, script, pos, now, op, arg, count, response,
                   data, ok, ret>>

\* setTxPower after waitMsg returned r
setTxPowerResult(r, buf) == r /\ buf[2] = 182

SetTxPowerReturn ==
    /\ pc = "ret"
    /\ op = "setTxPower"
    /\ ret' = RetBool(setTxPowerResult(ok, buffer))
    /\ pc' = "done"
    /\ UNCHANGED <<debug, behind, buffer, cards, rx, tx, script, pos, now, op, arg, time,
                   start, i, count, response, data, ok, hist>>

\* a local command array with its checksum at sizeof - 2
WithChecksum(cmd) ==
    [cmd EXCEPT ![Len(cmd) - 1] = SumSeq(SubSeq(cmd, 2, Len(cmd) - 2))]

setRegionCmd(regionCode) == WithChecksum(<<187, 0, 7, 0, 1, regionCode, 0, 126>>)

\* setRegion sends and starts delay(200)
SetRegionCall ==
    /\ pc = "idle"
    /\ op = "setRegion"
    /\ sendCMD(setRegionCmd(arg.regionCode))
    /\ pc' = "delay"
    /\ UNCHANGED <<debug, behind, buffer, cards, rx, script, pos, now, op, arg, time, start,
                   i, count, response, data, ok, ret, hist>>

\* what setRegion returns
setRegionResult == TRUE

\* a byte that arrives during the delay or while the loop that follows it is
\* emptying the input is read and dropped with the rest
ArriveDuringDrain ==
    /\ pc = "delay"
    /\ pos < ScriptLen(script) - (IF "then" \in DOMAIN arg THEN Len(script.post) ELSE 0)
    /\ pos' = pos + 1
    /\ UNCHANGED <<debug, behind, buffer, cards, rx, tx, script, now, op, arg, pc,
                   time, start, i, count, response, data, ok, ret, hist>>

\* the delay is over: whatever has arrived is read and dropped; return true
SetRegionReturn ==
    /\ pc = "delay"
    /\ op = "setRegion"
    /\ now' = now + RegionDelay
    /\ rx' = <<>>
    /\ ret' = RetBool(setRegionResult)
    /\ pc' = "done"
    /\ UNCHANGED <<debug, behind, buffer, cards, tx, script, pos, op, arg, time, start, i,
                   count, response, data, ok, hist>>

getRegionCmd == <<187, 0, 8, 0, 0, 8, 126>>

\* verifyRegion sends and starts delay(300)
VerifyRegionCall ==
    /\ pc = "idle"
    /\ op = "verifyRegion"
    /\ sendCMD(getRegionCmd)
    /\ pc' = "vdelay"
    /\ UNCHANGED <<debug, behind, buffer, cards, rx, script, pos, now, op, arg,
                   time, start, i, count, response, data, ok, ret, hist>>

\* the delay is over; unsigned long start = millis()
VerifyRegionDelayed ==
    /\ pc = "vdelay"
    /\ now' = now + VerifyDelay
    /\ start' = now + VerifyDelay
    /\ time' = VerifyTimeout
    /\ response' = <<>>
    /\ pc' = "vrecv"
    /\ UNCHANGED <<debug, behind, buffer, cards, rx, tx, script, pos, op, arg, i,
                   count, data, ok, ret, hist>>

\* while (millis() - start < 1000 && idx < 40)
VerifyGoesOn == now - start < VerifyTimeout /\ Len(response) < VerifySize

VerifyRegionRead ==
    /\ pc = "vrecv"
    /\ VerifyGoesOn
    /\ rx # <<>>
    /\ response' = Append(response, Head(rx))
    /\ rx' = Tail(rx)
    /\ UNCHANGED <<debug, behind, buffer, cards, tx, script, pos, now, op, arg, pc,
                   time, start, i, count, data, ok, ret, hist>>

\* a frame BB 01 08 starts at some i < idx - 6
verifyRegionOk(r) ==
    \E k \in 0..(Len(r) - 7) : r[k + 1] = 187 /\ r[k + 2] = 1 /\ r[k + 3] = 8

VerifyRegionReturn ==
    /\ pc = "vrecv"
    /\ ~VerifyGoesOn
    /\ ret' = RetBool(verifyRegionOk(response))
    /\ pc' = "done"
    /\ UNCHANGED <<debug, behind, buffer, cards, rx, tx, script, pos, now, op, arg,
                   time, start, i, count, response, data, ok, hist>>

\* begin: _debug = debug
BeginCall ==
    /\ pc = "idle"
    /\ op = "begin"
    /\ debug' = arg.debug
    /\ pc' = "done"
    /\ UNCHANGED <<behind, buffer, cards, rx, tx, script, pos, now, op, arg, time,
                   start, i, count, response, data, ok, ret, hist>>

setParamsCmd(mixer_g, if_g, thrd) ==
    WithChecksum(<<187, 0, 240, 0, 4, mixer_g, if_g, B1(thrd), B0(thrd), 0, 126>>)

\* setReceiverParams: drop pending input, send, start collecting the answer
SetReceiverParamsCall ==
    /\ pc = "idle"
    /\ op = "setReceiverParams"
    /\ rx' = <<>>
    /\ sendCMD(setParamsCmd(arg.mixer_g, arg.if_g, arg.thrd))
    /\ start' = now
    /\ time' = RecvTimeout
    /\ response' = <<>>
    /\ pc' = "recv"
    /\ UNCHANGED <<debug, behind, buffer, cards, script, pos, now, op, arg, i, count, data,
                   ok, ret, hist>>

\* while (millis() - startTime < 500 && responseIdx < sizeof(response))
RecvGoesOn == now - start < RecvTimeout /\ Len(response) < RecvSize

SetReceiverParamsRead ==
    /\ pc = "recv"
    /\ RecvGoesOn
    /\ rx # <<>>
    /\ response' = Append(response, Head(rx))
    /\ rx' = Tail(rx)
    /\ UNCHANGED <<debug, behind, buffer, cards, tx, script, pos, now, op, arg, pc, time,
                   start, i, count, data, ok, ret, hist>>

\* the check of the collected bytes against BB 01 F0 .. .. 00
setParamsOk(r) ==
    /\ Len(r) >= AckLen
    /\ r[1] = 187 /\ r[2] = 1 /\ r[3] = 240 /\ r[6] = 0

SetReceiverParamsReturn ==
    /\ pc = "recv"
    /\ ~RecvGoesOn
    /\ ret' = RetBool(setParamsOk(response))
    /\ pc' = "done"
    /\ UNCHANGED <<debug, behind, buffer, cards, rx, tx, script, pos, now, op, arg, time,
                   start, i, count, response, data, ok, hist>>

\* initializeModule: begin(), then the first getVersion
InitializeModuleCall ==
    /\ pc = "idle"
    /\ op = "initializeModule"
    /\ debug' = FALSE
    /\ sendCMD(HARDWARE_VERSION_CMD)
    /\ count' = 0
    /\ waitMsgEnter(buffer, DefaultTimeout)
    /\ UNCHANGED <<behind, cards, rx, script, pos, now, op, arg, response, data,
                   ok, ret>>

\* getVersion has returned info: leave the loop ...
InitializeModuleDone ==
    /\ pc = "ret"
    /\ op = "initializeModule"
    /\ ~infoIsError(getVersionResult(ok, buffer))
    /\ ret' = RetStr(getVersionResult(ok, buffer))
    /\ pc' = "done"
    /\ UNCHANGED <<debug, behind, buffer, cards, rx, tx, script, pos, now, op, arg, time,
                   start, i, count, response, data, ok, hist>>

\* ... or start delay(100)
InitializeModuleDelay ==
    /\ pc = "ret"
    /\ op = "initializeModule"
    /\ infoIsError(getVersionResult(ok, buffer))
    /\ count + 1 < MaxAttempts
    /\ count' = count + 1
    /\ pc' = "idelay"
    /\ UNCHANGED <<debug, behind, buffer, cards, rx, tx, script, pos, now, op, arg,
                   time, start, i, response, data, ok, ret, hist>>

\* the delay is over: getVersion again, with what has arrived meanwhile
\* pending in the input
InitializeModuleAgain ==
    /\ pc = "idelay"
    /\ now' = now + InitDelay
    /\ sendCMD(HARDWARE_VERSION_CMD)
    /\ buffer' = cleanBuffer(buffer)
    /\ i' = 0
    /\ start' = now + InitDelay
    /\ pc' = "wait"
    /\ hist' = [hist EXCEPT !.w = [NoWait EXCEPT !.pending = Len(rx)]]
    /\ UNCHANGED <<debug, behind, cards, rx, script, pos, op, arg, time, count,
                   response, data, ok, ret>>

\* sendCMD called by the user: _serial->write(data, size)
SendCMDCall ==
    /\ pc = "idle"
    /\ op = "sendCMD"
    /\ sendCMD(SubSeq(arg.data, 1, arg.size))
    /\ pc' = "done"
    /\ UNCHANGED <<debug, behind, buffer, cards, rx, script, pos, now, op, arg, time,
                   start, i, count, response, data, ok, ret, hist>>

\* readTID reads 8 bytes of bank 2 into uint8_t tid_buffer[12] = {0}
TidSize == 8
TidBank == 2
TidBuffer == [k \in 1..12 |-> 0]

\* cards[tagIndex].epc; tagIndex is a uint8_t, and from 200 on the slot
\* lies behind the object
readTIDEpc(cs, tagIndex) ==
    IF tagIndex < CardCap THEN cs[tagIndex].epc ELSE [k \in 1..12 |-> Indet]

\* readTID: select(cards[tagIndex].epc) builds its frame, sends and waits
ReadTIDCall ==
    /\ pc = "idle"
    /\ op = "readTID"
    /\ LET buf == selectFrame(buffer, readTIDEpc(cards, arg.tagIndex))
       IN  /\ sendCMD(Bytes(buf, Len(SET_SELECT_PARAMETER_CMD)))
           /\ waitMsgEnter(buf, DefaultTimeout)
    /\ UNCHANGED <<debug, behind, cards, rx, script, pos, now, op, arg, count, response,
                   data, ok, ret>>

\* select has returned: false ends readTID, true declares tid_buffer and
\* takes readCard(tid_buffer, 8, 0x02, 0, 0) to its waitMsg
ReadTIDSelected ==
    /\ pc = "ret"
    /\ op = "readTID"
    /\ data = <<>>
    /\ IF ok /\ selectOk(buffer)
       THEN /\ data' = TidBuffer
            /\ LET buf == readCardFrame(buffer, TidSize, TidBank, 0, 0)
               IN  /\ sendCMD(Bytes(buf, Len(READ_STORAGE_CMD)))
                   /\ waitMsgEnter(buf, DefaultTimeout)
            /\ UNCHANGED ret
       ELSE /\ ret' = RetBool(FALSE)
            /\ pc' = "done"
            /\ UNCHANGED <<buffer, tx, time, start, i, data, hist>>
    /\ UNCHANGED <<debug, behind, cards, rx, script, pos, now, op, arg, count,
                   response, ok>>

\* readCard has returned: readTID returns what it returned
ReadTIDReturn ==
    /\ pc = "ret"
    /\ op = "readTID"
    /\ data # <<>>
    /\ IF readCardOk(ok, buffer)
       THEN /\ data' = readCardCopy(Mem(buffer, behind, cards), TidSize, 0)
                           \o SubSeq(data, TidSize + 1, Len(data))
            /\ ret' = RetBool(TRUE)
       ELSE /\ ret' = RetBool(FALSE)
            /\ UNCHANGED data
    /\ pc' = "done"
    /\ UNCHANGED <<debug, behind, buffer, cards, rx, tx, script, pos, now, op, arg,
                   time, start, i, count, response, ok, hist>>

(***************************************************************************)
(* Command scenarios: the operation, its parameters and the module's       *)
(* answer.                                                                 *)
(***************************************************************************)
\* answers of a module that carried the command out
VersionAnswer == <<187, 1, 3, 0, 4, 0, 77, 49, 50, 134, 126>>
SelectInfoAnswer ==
    <<187, 1, 11, 0, 19, 1, 0, 0, 0, 32, 96, 0>> \o EpcA \o <<236, 126>>
WriteAnswer == <<187, 1, 73, 0, 1, 0, 75, 126>>
ReadData == <<17, 34, 51, 68, 85, 102, 119, 136>>
ReadAnswer ==
    <<187, 1, 57, 0, 23, 14, 48, 0>> \o EpcA \o ReadData \o <<7, 126>>
TxPowerAnswer == <<187, 1, 182, 0, 1, 0, 184, 126>>
RegionAnswer == <<187, 1, 7, 0, 1, 0, 9, 126>>
ParamsAnswer == <<187, 1, 240, 0, 1, 0, 242, 126>>
ParamsRefused == <<187, 1, 240, 0, 1, 1, 243, 126>>
RegionIs == <<187, 1, 8, 0, 1, 1, 11, 126>>
\* a version answer whose text is "ERROR" followed by NUL bytes
ErrorText == <<187, 1, 3, 0, 6, 0, 69, 82, 82, 79, 82, 0, 0, 126>>
\* the error frame: command byte 0xFF
ErrorAnswer == <<187, 1, 255, 0, 1, 16, 17, 126>>

\* bytes a user hands to sendCMD
UserFrame == <<187, 0, 3, 0, 1, 0, 4, 17, 34, 126>>
\* the answer to the read of the tag identifier
TidAnswer ==
    <<187, 1, 57, 0, 23, 14, 48, 0>> \o RunEpc(1) \o ReadData \o <<244, 126>>

Answer(o) ==
    CASE o \in {"getVersion", "initializeModule"} -> VersionAnswer
      [] o = "selectInfo" -> SelectInfoAnswer
      [] o = "select" -> SET_SELECT_OK
      [] o = "writeCard" -> WriteAnswer
      [] o = "readCard" -> ReadAnswer
      [] o = "setTxPower" -> TxPowerAnswer
      [] o = "setRegion" -> RegionAnswer
      [] o = "verifyRegion" -> RegionIs
      [] o = "setReceiverParams" -> ParamsAnswer

Front(s) == SubSeq(s, 1, Len(s) - 1)

\* nothing; the answer; the answer without its terminator; the answer after
\* a stray byte; the error frame; a refusal; a failed answer and then the answer
Answers(o) ==
    {<<>>, Answer(o), Front(Answer(o)), <<0>> \o Answer(o), ErrorAnswer,
     ParamsRefused, <<0>> \o Answer(o) \o Answer(o)}

WriteSizes == {0, 1, 4, 240, 242}
ReadSizes == {0, 2, 8}
\* the caller's array: size bytes
DataOf(size, seed) == [k \in 1..size |-> (seed + 3 * k) % 256]

CmdArgs(o) ==
    CASE o \in {"getVersion", "selectInfo"} -> {NoArg}
      [] o = "initializeModule" -> {[rx_pin |-> 16, tx_pin |-> 17]}
      [] o = "select" -> [epc : {EpcA, RunEpc(1)}]
      [] o = "writeCard" ->
            {[data |-> DataOf(n, 16), size |-> n, membank |-> 3, sa |-> s,
              access_password |-> p] :
                n \in WriteSizes, s \in {0, 258}, p \in {0, 16909060}}
      [] o = "readCard" ->
            {[data |-> DataOf(n, 200), size |-> n, membank |-> m, sa |-> s,
              access_password |-> 16909060] :
                n \in ReadSizes, m \in {2, 3}, s \in {0, 258}}
      [] o = "setTxPower" -> [db : {0, 2600, 65535}]
      [] o = "setRegion" -> [regionCode : {1, 2, 255}]
      [] o = "verifyRegion" -> {NoArg}
      [] o = "begin" -> [debug : BOOLEAN]
      [] o = "sendCMD" -> {[data |-> UserFrame, size |-> n] : n \in {0, 3, 10}}
      [] o = "readTID" -> [tagIndex : {0, 1, 2, CardCap - 1, CardCap, 255}]
      [] o = "setReceiverParams" ->
            [mixer_g : {3}, if_g : {6}, thrd : {432, 65535}]

WaitOps == {"getVersion", "selectInfo", "select", "writeCard", "readCard", "setTxPower"}
CmdOps == WaitOps \cup {"setRegion", "setReceiverParams"}
AllOps == CmdOps \cup PollOps
              \cup {"initializeModule", "verifyRegion", "sendCMD", "readTID"}

\* begin and sendCMD read nothing; readTID meets a module that answers the
\* select and the read, or fails either; verifyRegion also meets a module that goes on
\* sending past the 40 bytes it collects, getVersion one whose version text
\* reads "ERROR"
ScriptsOf(o) ==
    IF o \in {"begin", "sendCMD"} THEN {Raw(<<>>)}
    ELSE IF o = "readTID"
    THEN {Raw(a) : a \in {<<>>, SET_SELECT_OK, Front(SET_SELECT_OK), ErrorAnswer,
                          SET_SELECT_OK \o TidAnswer,
                          SET_SELECT_OK \o Front(TidAnswer),
                          SET_SELECT_OK \o ErrorAnswer}}
    ELSE {Raw(a) : a \in Answers(o)}
         \cup (IF o = "verifyRegion"
               THEN {Raw(ErrorAnswer \o ErrorAnswer \o ErrorAnswer \o ErrorAnswer
                         \o ErrorAnswer \o RegionIs)}
               ELSE {})
         \cup (IF o \in {"getVersion", "initializeModule"}
               THEN {Raw(ErrorText)}
               ELSE {})

InitCmd ==
    /\ InitObject(FewObjects, {})
    /\ op \in CmdOps \cup {"initializeModule", "verifyRegion", "begin", "sendCMD"}
    /\ arg \in CmdArgs(op)
    /\ script \in ScriptsOf(op)
    /\ InitCommon

\* readTID on a registry as constructed or holding two tags
InitTid ==
    /\ InitObject(FewObjects \cup {[fill |-> Indet, pad |-> 7, debug |-> FALSE]},
                  {TwoCards})
    /\ op = "readTID"
    /\ arg \in CmdArgs(op)
    /\ script \in ScriptsOf(op)
    /\ InitCommon

\* the polling operations, with every polling_count of the set
InitPollCmd ==
    /\ InitObject(FewObjects, {TwoCards})
    /\ op \in PollOps
    /\ arg \in (IF op = "pollingOnce" THEN {NoArg}
                ELSE [polling_count : {0, 1, 255, 256, 10000, 65535}])
    /\ script \in {Raw(<<>>), Raw(TagA \o TagB), Raw(NoTag)}
    /\ InitCommon

Init == InitCmd \/ InitPollCmd \/ InitTid

Next ==
    \/ Arrive \/ Tick \/ WaitMsgRead \/ WaitMsgTimeout
    \/ PollingOnceCall \/ PollingMultipleCall \/ PollingStep
    \/ GetVersionCall \/ GetVersionReturn
    \/ SelectInfoCall \/ SelectInfoReturn
    \/ SelectCall \/ SelectReturn
    \/ WriteCardCall \/ WriteCardReturn
    \/ ReadCardCall \/ ReadCardReturn
    \/ SetTxPowerCall \/ SetTxPowerReturn
    \/ SetRegionCall \/ ArriveDuringDrain \/ SetRegionReturn
    \/ VerifyRegionCall \/ VerifyRegionDelayed \/ VerifyRegionRead
    \/ VerifyRegionReturn
    \/ SetReceiverParamsCall \/ SetReceiverParamsRead \/ SetReceiverParamsReturn
    \/ BeginCall
    \/ InitializeModuleCall \/ InitializeModuleDone
    \/ InitializeModuleDelay \/ InitializeModuleAgain
    \/ SendCMDCall
    \/ ReadTIDCall \/ ReadTIDSelected \/ ReadTIDReturn

Spec == Init /\ [][Next]_vars

(***************************************************************************)
(* Claims about the command operations.                                    *)
(***************************************************************************)
Done(o) == pc = "done" /\ op = o
\* the operation reports failure: false, or "ERROR" where it returns a string
ReportsFailure ==
    IF op \in {"getVersion", "selectInfo"} THEN ret.s = ErrorStr ELSE ~ret.b
\* the bytes the module has put on the line
Delivered == [p \in 1..pos |-> ScriptByte(script, p)]
TerminatorDelivered == \E p \in 1..pos : Delivered[p] = END

\* the response carries the error signature the operation knows
ErrorSignature ==
    \/ op = "writeCard" /\ buffer[2] = WRITE_STORAGE_ERROR[3]
    \/ op = "readCard" /\ buffer[2] = READ_STORAGE_ERROR[3]
    \/ op = "select" /\ ~selectOk(buffer)
    \/ op = "setTxPower" /\ buffer[2] # 182

\* C7: every command operation returns false / "ERROR" when no terminator
\* arrives within its timeout (here: the module never sends one), when the
\* received bytes fail the marker check, or when the response matches the
\* operation's error signature.
C7_FailurePolicy ==
    (pc = "done" /\ op \in CmdOps) =>
        /\ ~TerminatorDelivered => ReportsFailure
        /\ (op \in WaitOps /\ ~(FirstIsHead /\ LastIsEnd)) => ReportsFailure
        /\ (op \in WaitOps /\ ErrorSignature) => ReportsFailure

AckOps == {"setTxPower", "setRegion", "setReceiverParams"}
\* a response with the expected acknowledgment was received: by waitMsg in
\* buffer, by the loop of setReceiverParams in response[]; setRegion reads
\* no response, so for it the test is whether the module sent one at all
AckReceived ==
    CASE op = "setTxPower" -> ok /\ LastIsEnd /\ buffer[2] = 182
      [] op = "setReceiverParams" ->
            /\ Len(response) >= AckLen
            /\ SubSeq(response, 1, 3) = <<187, 1, 240>>
            /\ response[6] = 0
      [] op = "setRegion" -> pos >= 3 /\ SubSeq(Delivered, 1, 3) = <<187, 1, 7>>
      [] OTHER -> FALSE

\* C8: setTxPower, setRegion and setReceiverParams return true only if a
\* response with the expected acknowledgment byte was received, and false
\* when the module answers with a different byte or does not answer.
C8_AckValidated ==
    (pc = "done" /\ op \in AckOps) => (ret.b => AckReceived)

\* the frames an operation writes in one invocation: readTID is a select
\* followed by a read, every other operation is one command
FramesOf(o) == IF o = "readTID" THEN 2 ELSE 1

\* C9: no operation, initializeModule included, sends a command again
\* after a failed exchange: an invocation writes each of its command frames
\* once and never more, whether the exchange succeeded, timed out or failed
\* validation.
C9_NoRetries ==
    (pc # "idle" /\ op \in AllOps) =>
        /\ Len(tx) <= FramesOf(op)
        /\ \A m \in 1..Len(tx) : \A n \in 1..Len(tx) : m # n => tx[m] # tx[n]
        /\ (pc = "done" /\ op # "readTID") => Len(tx) = 1

BuildOps == {"pollingMultiple", "select", "writeCard", "readCard", "setTxPower",
             "setRegion", "setReceiverParams"}

\* C10: every frame a frame-building operation writes starts with 0xBB, ends
\* with 0x7E, and its second-to-last byte is the sum modulo 256 of the bytes
\* from index 1 through the last parameter byte.
C10_FrameChecksum ==
    op \in BuildOps =>
        \A n \in 1..Len(tx) :
            LET f == tx[n]
            IN  /\ Len(f) >= 3
                /\ f[1] = HEAD
                /\ f[Len(f)] = END
                /\ f[Len(f) - 1] = SumSeq(SubSeq(f, 2, Len(f) - 2))

(***************************************************************************)
(* Claims about the layout of the frames written.                          *)
(***************************************************************************)
\* the 16-bit big-endian value at bytes k, k+1 (0-based) of a frame
Word16(f, k) == f[k + 1] * 256 + f[k + 2]
\* bytes 3-4 of the frame: the parameter length
LengthField(f) == Word16(f, 3)
\* the bytes between the length field and the checksum
ParamBytes(f) == Len(f) - 7

\* C11: every frame an operation encodes has a correct length field: bytes
\* 3-4 equal the number of parameter bytes between the length field and the
\* checksum; for writeCard that is 9 + size, and bytes 12-13 equal size/2.
C11_LengthField ==
    (pc # "idle" /\ op \in AllOps \ {"sendCMD"}) =>
        \A n \in 1..Len(tx) :
            LET f == tx[n]
            IN  /\ Len(f) >= 7
                /\ LengthField(f) = ParamBytes(f)
                /\ op = "writeCard" =>
                      /\ LengthField(f) = 9 + arg.size
                      /\ Word16(f, 12) = arg.size \div 2

\* C12: the frame readCard and writeCard send carries the access password
\* in bytes 5-8, the memory bank in byte 9, the start address sa in bytes
\* 10-11 and the word count size/2 in bytes 12-13.
C12_ParamsCarried ==
    (pc # "idle" /\ op \in {"readCard", "writeCard"}) =>
        \A n \in 1..Len(tx) :
            LET f == tx[n]
            IN  /\ Len(f) >= 14
                /\ Word16(f, 5) * 65536 + Word16(f, 7) = arg.access_password
                /\ f[10] = arg.membank
                /\ Word16(f, 10) = arg.sa
                /\ Word16(f, 12) = arg.size \div 2

(***************************************************************************)
(* Loop-back: the module's line is wired to the driver's own output, so    *)
(* what arrives is the frame the operation has just written.               *)
(***************************************************************************)
EchoOps == {"select", "writeCard", "readCard", "setTxPower"}

\* TX power values: plain ones, and ones that put 0x7E in the high byte, the
\* low byte or the checksum
EchoDb == {hi * 256 + lo : hi \in {0, 10, END, 255}, lo \in {0, 40, END, 198, 255}}

EchoArgs(o) == IF o = "setTxPower" THEN [db : EchoDb] ELSE CmdArgs(o)

\* the frame operation o writes for the parameters a, from a fresh buffer
EchoFrame(o, a) ==
    CASE o = "setTxPower" -> Bytes(setTxPowerFrame(ZeroBuffer, a.db), Len(SET_TX_POWER))
      [] o = "select" -> Bytes(selectFrame(ZeroBuffer, a.epc), Len(SET_SELECT_PARAMETER_CMD))
      [] o = "readCard" ->
            Bytes(readCardFrame(ZeroBuffer, a.size, a.membank, a.sa, a.access_password),
                  Len(READ_STORAGE_CMD))
      [] o = "writeCard" ->
            writeCardSent(writeCardMem(Mem(ZeroBuffer, Padding(3, 0), EmptyCards),
                                       a.data, a.size, a.membank, a.sa,
                                       a.access_password), a.size)

InitEcho ==
    /\ InitObject(FewObjects, {})
    /\ op \in EchoOps
    /\ arg \in EchoArgs(op)
    /\ script = Raw(EchoFrame(op, arg))
    /\ InitCommon

NextEcho ==
    \/ Arrive \/ Tick \/ WaitMsgRead \/ WaitMsgTimeout
    \/ SelectCall \/ SelectReturn
    \/ WriteCardCall \/ WriteCardReturn
    \/ ReadCardCall \/ ReadCardReturn
    \/ SetTxPowerCall \/ SetTxPowerReturn

SpecEcho == InitEcho /\ [][NextEcho]_vars

\* the line carries exactly the frame written, and waitMsg left its loop on
\* a terminator, not on the deadline
LoopedBack ==
    /\ Len(tx) = 1
    /\ script = Raw(tx[1])
    /\ hist.w.last = END

\* the receive buffer holds the complete frame f
Holds(buf, f) == \A k \in 1..Len(f) : k - 1 \in Idx /\ buf[k - 1] = f[k]

\* C13: round trip: when the frame an operation wrote is looped back into
\* waitMsg, waitMsg accepts it and the receive buffer holds the complete
\* frame, for every parameter value.
C13_RoundTrip ==
    (pc = "done" /\ op \in EchoOps /\ LoopedBack) =>
        /\ ok
        /\ Holds(buffer, tx[1])

\* C14: for every TX power db, the frame setTxPower writes has the high byte
\* of db in byte 5, the low byte in byte 6, and in byte 7 the sum of bytes 1
\* to 6 modulo 256.
C14_TxPowerBytes ==
    (pc # "idle" /\ op = "setTxPower") =>
        /\ Len(tx) = 1
        /\ LET f == tx[1]
           IN  /\ Len(f) = 9
               /\ f[6] = arg.db \div 256
               /\ f[7] = arg.db % 256
               /\ f[8] = (f[2] + f[3] + f[4] + f[5] + f[6] + f[7]) % 256

\* setTxPower(2600) has written 0x0A, 0x28
C14_Witness ==
    /\ Done("setTxPower")
    /\ arg.db = 2600
    /\ tx[1][6] = 10 /\ tx[1][7] = 40
    /\ tx[1][8] = (182 + 2 + 10 + 40) % 256

(***************************************************************************)
(* cleanCardsBuffer on its own, called twice in a row on the registry a    *)
(* scan of 0 to 200 tags has left.                                         *)
(***************************************************************************)
CleanRegistries == {CardsAfter(n, RunFrame) : n \in 0..CardCap} \cup {TwoCards}

InitClean ==
    /\ InitObject(Objects, CleanRegistries)
    /\ op = "cleanCardsBuffer"
    /\ arg = NoArg
    /\ script = Raw(<<>>)
    /\ InitCommon

\* cleanCardsBuffer(); count is the number of calls made
CleanCardsBufferCall ==
    /\ op = "cleanCardsBuffer"
    /\ pc = "idle"
    /\ cards' = cleanCardsBuffer(cards)
    /\ count' = count + 1
    /\ pc' = IF count = 0 THEN "idle" ELSE "done"
    /\ UNCHANGED <<debug, behind, buffer, rx, tx, script, pos, now, op, arg, time, start,
                   i, response, data, ok, ret, hist>>

NextClean == CleanCardsBufferCall

SpecClean == InitClean /\ [][NextClean]_vars

\* C15: reset idempotence: from any registry content cleanCardsBuffer leaves
\* all 200 slots empty (rssi 0, pc and epc zero, empty strings), and a
\* second call in a row leaves the registry in the same empty state.
C15_ResetIdempotent ==
    (op = "cleanCardsBuffer" /\ count >= 1) =>
        /\ DOMAIN cards = 0..(CardCap - 1)
        /\ \A k \in DOMAIN cards :
              /\ cards[k].rssi = 0
              /\ cards[k].pc = <<0, 0>>
              /\ cards[k].epc = <<0, 0, 0, 0, 0, 0, 0, 0, 0, 0, 0, 0>>
              /\ cards[k].rssi_str = <<>>
              /\ cards[k].pc_str = <<>>
              /\ cards[k].epc_str = <<>>
        /\ cleanCardsBuffer(cards) = cards

\* a full registry has been reset twice
C15_Witness ==
    /\ op = "cleanCardsBuffer"
    /\ pc = "done"
    /\ count = 2
    /\ hist.prior = CardCap
    /\ cards = EmptyCards

(***************************************************************************)
(* Two operations in a row.  The first one is setRegion, whose answer may  *)
(* come after its delay; the second one is named in the field `then` of    *)
(* the parameters.  The script is: pre, the module's answer to the first   *)
(* operation, then post, its answer to the second.                         *)
(***************************************************************************)
SeqThen ==
    {[op |-> "writeCard",
      arg |-> [data |-> DataOf(4, 16), size |-> 4, membank |-> 3, sa |-> 0,
               access_password |-> 0]],
     [op |-> "readCard",
      arg |-> [data |-> DataOf(8, 200), size |-> 8, membank |-> 2, sa |-> 0,
               access_password |-> 0]],
     [op |-> "select", arg |-> [epc |-> EpcA]],
     [op |-> "setTxPower", arg |-> [db |-> 2600]]}

InitSeq ==
    /\ InitObject(FewObjects, {})
    /\ op = "setRegion"
    /\ \E n \in SeqThen :
          /\ arg = [regionCode |-> 1, then |-> n]
          /\ script \in {[pre |-> late, kind |-> "fill", run |-> 0, post |-> answer] :
                            late \in {<<>>, RegionAnswer, ErrorAnswer},
                            answer \in {<<>>, Answer(n.op)}}
    /\ InitCommon

\* between the two operations the module goes on sending what it still has
\* to send in answer to the first
ArriveBetween ==
    /\ pc = "done"
    /\ "then" \in DOMAIN arg
    /\ pos < ScriptLen(script) - Len(script.post)
    /\ Len(rx) < MaxPending
    /\ rx' = Append(rx, ScriptByte(script, pos + 1))
    /\ pos' = pos + 1
    /\ UNCHANGED <<debug, behind, buffer, cards, tx, script, now, op, arg, pc, time,
                   start, i, count, response, data, ok, ret, hist>>

\* the first operation has returned; the caller invokes the second one
ThenCall ==
    /\ pc = "done"
    /\ "then" \in DOMAIN arg
    /\ op' = arg.then.op
    /\ arg' = arg.then.arg
    /\ data' = IF "data" \in DOMAIN arg.then.arg THEN arg.then.arg.data ELSE data
    /\ tx' = <<>>
    /\ ret' = NoRet
    /\ pc' = "idle"
    /\ UNCHANGED <<debug, behind, buffer, cards, rx, script, pos, now, time, start, i,
                   count, response, ok, hist>>

NextSeq ==
    \/ Arrive \/ ArriveBetween \/ Tick \/ WaitMsgRead \/ WaitMsgTimeout
    \/ SetRegionCall \/ ArriveDuringDrain \/ SetRegionReturn
    \/ ThenCall
    \/ SelectCall \/ SelectReturn
    \/ WriteCardCall \/ WriteCardReturn
    \/ ReadCardCall \/ ReadCardReturn
    \/ SetTxPowerCall \/ SetTxPowerReturn

SpecSeq == InitSeq /\ [][NextSeq]_vars

\* waitMsg has read bytes that were in the UART input before the command of
\* this operation was written
StaleRead == hist.w.pending > 0 /\ hist.w.n > 0

\* C16: single exchange: an operation does not return success on the
\* strength of bytes an earlier exchange left in the transport's input; the
\* frame it interprets consists of bytes sent after its command was written.
C16_SingleExchange ==
    (pc = "done" /\ op \in WaitOps /\ StaleRead) => ReportsFailure

(***************************************************************************)
(* waitMsg with a scheduler: the driver's loop keeps running, so a step it *)
(* can take is taken, and millis() keeps advancing while it is polled.     *)
(* Nothing is assumed of the module: it may stop sending at any point.     *)
(***************************************************************************)
\* streams of up to three bytes
LiveScripts == {s \in WaitScripts : s.run = 0}

InitWaitLive ==
    /\ InitObject(Objects, {})
    /\ op = "waitMsg"
    /\ arg \in [time : WaitTimes]
    /\ script \in LiveScripts
    /\ InitCommon

SpecWaitLive ==
    /\ InitWaitLive
    /\ [][NextWait]_vars
    /\ WF_vars(WaitMsgCall)
    /\ WF_vars(WaitMsgRead)
    /\ WF_vars(WaitMsgTimeout)
    /\ WF_vars(WaitMsgDone)
    /\ WF_vars(Tick)

\* waitMsg is in its loop with a byte other than 0x7E available
MoreToRead == pc = "wait" /\ rx # <<>> /\ Head(rx) # END

\* C17: waitMsg stops at the first 0x7E or at the deadline: it reads no
\* byte after the first 0x7E; it stays in its loop while a byte other than
\* 0x7E is available, even past the timeout; and it eventually returns
\* when the module delivers a 0x7E or stops sending.
C17_StopsAtTerminator ==
    /\ [](pc = "wait" => hist.w.last # END)
    /\ [][hist.w.last = END => hist'.w.n = hist.w.n]_vars
    /\ [][MoreToRead => pc' = "wait"]_vars
    /\ <>(pc = "done")

\* waitMsg(0) has read several bytes, past its timeout, up to a 0x7E, and
\* has left the byte after the 0x7E in the input
C17_Witness ==
    /\ op = "waitMsg"
    /\ pc = "done"
    /\ arg.time = 0
    /\ hist.w.n >= 2
    /\ hist.w.last = END
    /\ rx # <<>>

(***************************************************************************)
(* Inventory with a module that does not stop: it sends the frames of      *)
(* script.cycle over and over.  The clock is free: the module may pause    *)
(* between any two bytes, for as long as it takes for a deadline to pass.  *)
(***************************************************************************)
Cycle(frames) ==
    [pre |-> <<>>, kind |-> "cycle", run |-> 0, post |-> <<>>, cycle |-> frames]

\* one tag again and again; a frame that is not 24 bytes long
CycleScripts == {Cycle(TagA), Cycle(NoTag)}

InitRepeat ==
    /\ InitObject({[fill |-> 0, pad |-> 3, debug |-> FALSE]}, {})
    /\ op \in PollOps
    /\ arg = PollArg(op)
    /\ script \in CycleScripts
    /\ InitCommon

\* the module puts the next byte of its cycle on the line
ArriveCycle ==
    /\ script.kind = "cycle"
    /\ pc \notin {"idle", "done"}
    /\ Len(rx) < MaxRx
    /\ rx' = Append(rx, script.cycle[pos + 1])
    /\ pos' = (pos + 1) % Len(script.cycle)
    /\ UNCHANGED <<debug, behind, buffer, cards, tx, script, now, op, arg, pc, time,
                   start, i, count, response, data, ok, ret, hist>>

NextRepeat ==
    \/ PollingOnceCall \/ PollingMultipleCall
    \/ ArriveCycle \/ TickUntil \/ WaitMsgRead \/ WaitMsgTimeout
    \/ PollingStep

SpecRepeat == InitRepeat /\ [][NextRepeat]_vars

\* the deadline of the last waitMsg call has passed
DeadlinePassed == now - start >= time

\* C18: pollingOnce and pollingMultiple have no overall bound: they return
\* only when a waitMsg call fails or when a 24-byte frame arrives with 200
\* records stored; with a module that sends valid frames carrying fewer
\* than 200 distinct EPCs they return only after the module has let a
\* deadline pass, however many frames they have handled.
C18_NoOverallBound ==
    (pc \in {"ret", "done"} /\ op \in PollOps) =>
        /\ pc = "done" => (~ok \/ (buffer[EndIdx] = END /\ count = CardCap))
        \* on valid frames waitMsg fails only at a deadline
        /\ (script.kind = "cycle" /\ ~ok) => DeadlinePassed
        \* and these modules never fill the registry
        /\ (script.kind = "cycle" /\ pc = "done") => (~ok /\ count < CardCap)

\* the same tag has been handled up to the end of the record kept of the
\* frames, one past the capacity, and the scan is still going on
C18_Witness ==
    /\ op \in PollOps
    /\ script.kind = "cycle"
    /\ pc = "wait"
    /\ Len(hist.seen) = CardCap + 1
    /\ count = 1

(***************************************************************************)
(* Claims about the indices used on the frame buffer.                      *)
(***************************************************************************)
\* the indices the marker check of waitMsg reads: buffer[0], and
\* buffer[i - 1] when buffer[0] is 0xBB (the && does not evaluate it
\* otherwise)
waitMsgCheckIndices(buf, idx) == IF buf[0] = HEAD THEN {0, idx - 1} ELSE {0}

\* C19: every access waitMsg makes to the frame buffer uses an index within
\* 0..255, for every number of bytes received: the write buffer[i] and the
\* final check of buffer[i - 1].
C19_IndexInRange ==
    (op = "waitMsg") =>
        /\ i \in Idx
        /\ pc \in {"ret", "done"} => waitMsgCheckIndices(buffer, i) \subseteq Idx

\* the indices of buffer writeCard writes for a payload of size bytes: the
\* fields 5..13, the data at 14 + i for the values a uint8_t i takes, and,
\* once the copy loop has ended, the checksum at offset and the terminator
\* at offset + 1
writeCardIndices(size) ==
    (5..13) \cup {14 + k : k \in 0..((IF size < 256 THEN size ELSE 256) - 1)}
            \cup (IF writeCardCopyEnds(size)
                  THEN {writeCardOffset(size), writeCardOffset(size) + 1}
                  ELSE {})

\* C20: the payload always fits the frame buffer: for every payload size
\* writeCard writes only at indices within 0..255 and sends 16 + size bytes.
C20_PayloadFits ==
    (pc # "idle" /\ op = "writeCard") =>
        /\ writeCardIndices(arg.size) \subseteq Idx
        /\ Len(tx) = 1
        /\ Len(tx[1]) = 16 + arg.size

(***************************************************************************)
(* readCard and writeCard with long arrays, on every object of the sets    *)
(* above and on one whose registry holds two tags.  readCard meets a       *)
(* module that stays silent, answers with a short data frame, refuses,     *)
(* loses the terminator, or answers with the whole range asked for.        *)
(***************************************************************************)
ReadLongSizes == {0, 8, 232, 234, 236, 238, 244, 255, 256}
WriteLongSizes == {240, 241, 243, 250, 255, 256}
\* the objects these run on: static ones and ones in memory of unknown
\* content, with either padding, debug output on or off
ReadObjects == {o \in Objects : o.fill \in {0, Indet}}

\* the k-th byte of the tag memory that is read; never 0x7E or 0xBB
MemByte(k) == (k % 100) + 1

\* the data frame of a read of size bytes: PL = UL + PC + EPC + data
FullAnswer(size) ==
    LET body == <<1, 57, (15 + size) \div 256, (15 + size) % 256, 14, 48, 0>>
                \o EpcA \o [k \in 1..size |-> MemByte(k)]
    IN  <<HEAD>> \o body \o <<SumSeq(body), END>>

ReadScripts(size) ==
    {Raw(<<>>), Raw(ReadAnswer), Raw(ErrorAnswer), Raw(Front(ReadAnswer)),
     Raw(FullAnswer(size))}

InitRead ==
    /\ InitObject(ReadObjects, {TwoCards})
    /\ \/ /\ op = "readCard"
          /\ arg \in {[data |-> DataOf(n, 200), size |-> n, membank |-> 3, sa |-> 0,
                       access_password |-> 0] : n \in ReadLongSizes}
          /\ script \in ReadScripts(arg.size)
       \/ /\ op = "writeCard"
          /\ arg \in {[data |-> DataOf(n, 16), size |-> n, membank |-> 3, sa |-> 0,
                       access_password |-> 0] : n \in WriteLongSizes}
          /\ script \in {Raw(<<>>), Raw(WriteAnswer), Raw(ErrorAnswer)}
    /\ InitCommon

NextRead ==
    \/ Arrive \/ Tick \/ WaitMsgRead \/ WaitMsgTimeout
    \/ ReadCardCall \/ ReadCardReturn
    \/ WriteCardCall \/ WriteCardReturn

SpecRead == InitRead /\ [][NextRead]_vars

\* C21: readCard leaves the caller's array as it was unless it returns true,
\* also when it returns false; when it returns true every byte it read lies
\* in the buffer and the array holds the size bytes buffer[20 .. 20+size-1].
C21_DataOnlyOnSuccess ==
    op = "readCard" =>
        IF pc = "done" /\ ret.b
        THEN /\ readCardIndices(arg.size) \subseteq Idx
             /\ data = [k \in 1..arg.size |-> buffer[20 + k - 1]]
        ELSE data = arg.data

====
